---- MODULE Spec2Model ----
(***************************************************************************)
(* Terminal session manager of agent-station                               *)
(* (src-tauri/src/commands/terminal.rs).                                   *)
(*                                                                         *)
(* The state is the TerminalManager registry, the objects every            *)
(* TerminalInstance shares through Arc (running flag, writer, master),     *)
(* the mutexes guarding them, the reader and child-wait threads that       *)
(* spawn_terminal starts, the events handed to AppHandle::emit, and the    *)
(* position of every thread that is inside one of the seven commands.      *)
(*                                                                         *)
(* A MutexGuard lives until the end of the scope that binds it, so a       *)
(* command that binds `terminals` at its top keeps the registry mutex      *)
(* until it returns.  A step that touches nothing shared is merged with    *)
(* the next step that does: a command starts at the step that takes its    *)
(* first lock, so a thread blocked on a mutex is one whose step is not     *)
(* enabled.                                                                *)
(*                                                                         *)
(* Uuid::new_v4 is modelled as yielding an id never yielded before.  The   *)
(* event sink is kept per terminalId (the global stream filtered by id).   *)
(***************************************************************************)
EXTENDS Integers, Sequences, FiniteSets, TLC

\* ---------------------------------------------------------------- bounds
MaxSessions == 2      \* children launched (ids generated) in one run
NumCallers == 2       \* threads invoking commands concurrently
MaxReads == 2         \* non-empty reads the reader of one session makes
MaxInput == 3         \* a write starts only while the input holds fewer bytes
MaxCalls == 3         \* commands invoked in one run
MaxLines == 4         \* lines of a task file

\* ------------------------------------------------------- program constants
CtrlC == 3            \* kill_terminal: writer.write_all(&[3])
Replacement == 65533  \* U+FFFD, the code point from_utf8_lossy substitutes

Ids == 1..MaxSessions
Callers == 1..NumCallers
Projects == {"p1", "p2"}
None == 0
NoSuchId == MaxSessions + 1   \* an id no spawn_terminal ever returns
NoProject == "-"

\* PtySize given to openpty, and the one the callers resize to.
PtySize0 == [rows |-> 24, cols |-> 80]
NewSize == [rows |-> 43, cols |-> 132]

\* What a command writes, and what a read of the pty returns.
Payload == <<104, 105>>
Chunks == {<<65, 255>>, <<66>>}

VARIABLES
    terminals,   \* TerminalManager.terminals: id -> [id, project_id] (the map's contents)
    running,     \* Arc<Mutex<bool>> of every session created: id -> BOOLEAN
    writer,      \* bytes written so far through each session's writer
    master,      \* PtySize of each session's master
    child,       \* child process of each id generated: "running", "exited", "reaped"
    reader,      \* reader thread of each id: "read", "exit", "done"
    reaper,      \* child-wait thread of each id: "waiting", "done"
    events,      \* what was emitted, per terminalId
    pty,         \* the chunks each reader thread has read from its pty
    regLock,     \* thread holding state.terminals, or None
    writerLock,  \* thread holding each writer mutex, or None
    masterLock,  \* thread holding each master mutex, or None
    poisoned,    \* mutexes a panic has poisoned
    pc,          \* where each calling thread is
    tid,         \* the terminal id it works on
    proj,        \* the project_id it was given
    response,    \* the command result the last step handed back to the frontend
    killed,      \* ids for which a kill_terminal call has returned
    inserted,    \* ids a spawn_terminal call has put into the registry
    calls,       \* commands invoked so far
    content      \* what fs::read_to_string returns for the project's task file

vars == <<terminals, running, writer, master, child, reader, reaper, events, pty,
          regLock, writerLock, masterLock, poisoned, pc, tid, proj, response, killed, inserted,
          calls, content>>

sessionVars == <<terminals, running, writer, master, child, reader, reaper, events, pty>>
lockVars == <<regLock, writerLock, masterLock, poisoned>>
callerVars == <<pc, tid, proj, killed, inserted, calls>>

\* ---------------------------------------------------------------- results
Ok(v) == <<"Ok", v>>
Err(m) == <<"Err", m>>
Unit == "()"
NotFound == "Terminal not found"
PoisonError == "poisoned lock: another task failed inside"

\* Option<TerminalInfo>: Ok(None) and Ok(Some(info)).
Nothing == {}
Some(v) == {v}

Response(command, terminal_id, project_id, result) ==
    [command |-> command, terminal_id |-> terminal_id,
     project_id |-> project_id, result |-> result]
NoResponse == Response("none", None, NoProject, <<"None", "">>)

\* ---------------------------------------------------------------- helpers
Extend(f, k, v) == [x \in DOMAIN f \cup {k} |-> IF x = k THEN v ELSE f[x]]
Remove(f, k) == [x \in DOMAIN f \ {k} |-> f[x]]

Range(s) == {s[i] : i \in DOMAIN s}

\* The orders in which an iteration can visit the keys in S.
Orders(S) ==
    {order \in [1..Cardinality(S) -> S] :
        \A i, j \in 1..Cardinality(S) : order[i] = order[j] => i = j}

\* String::from_utf8_lossy on a chunk of lone bytes: ASCII is kept, a byte that
\* is no valid UTF-8 on its own becomes U+FFFD.
from_utf8_lossy(bytes) ==
    [i \in 1..Len(bytes) |-> IF bytes[i] < 128 THEN bytes[i] ELSE Replacement]

TerminalOutput(id, data) == [terminal_id |-> id, data |-> data]
Emitted(kind, id, data) == [event |-> kind, payload |-> TerminalOutput(id, data)]

emit(id, kind, data) == [events EXCEPT ![id] = Append(@, Emitted(kind, id, data))]

\* terminal.running.lock().map(|r| *r).unwrap_or(false)
is_running(id) == IF <<"running", id>> \in poisoned THEN FALSE ELSE running[id]

TerminalInfo(id) ==
    [id |-> terminals[id].id,
     project_id |-> terminals[id].project_id,
     is_running |-> is_running(id)]

\* Faulty variant: one flag shared by all sessions.
mark_all_not_running(id) == [x \in DOMAIN running |-> FALSE]

\* *running = false, under if let Ok(..) = running.lock()
mark_not_running(id) ==
    IF <<"running", id>> \in poisoned THEN running ELSE [running EXCEPT ![id] = FALSE]

\* Faulty variant: an id generator that repeats itself.
new_v4_reused == CHOOSE i \in Ids : \A j \in Ids : i <= j

\* What the next reader.read of session id returns when it returns data: the
\* child's output comes in chunks that alternate between the two.
read(id) == IF Len(pty[id]) % 2 = 0 THEN <<65, 255>> ELSE <<66>>

\* The ids generated so far: every one belongs to a child that was launched.
Generated == DOMAIN child

\* Faulty variant: the id of a killed session is handed out again.
new_v4_recycled ==
    CHOOSE i \in Ids \ (Generated \ killed) : \A j \in Ids \ (Generated \ killed) : i <= j

\* Uuid::new_v4(): an id no earlier call produced.
new_v4 == CHOOSE i \in Ids \ Generated : \A j \in Ids \ Generated : i <= j

\* The ids the frontend can pass: one spawn_terminal put into the registry (it
\* is returned, listed, or carried by an event), or one that never existed.
Inserted(id) ==
    \/ id \in DOMAIN terminals
    \/ id \in DOMAIN reader
    \/ \E c \in Callers : pc[c] \in {"spawn_threads", "spawn_return"} /\ tid[c] = id
CallIds == {id \in Ids : Inserted(id)} \cup {NoSuchId}

Outputs(id) == SelectSeq(events[id], LAMBDA e : e.event = "terminal-output")
Exits(id) == SelectSeq(events[id], LAMBDA e : e.event = "terminal-exit")

\* ---------------------------------------------------------------- task files
\* The character U+0060, which a string of this language cannot hold.
Tick == "U+0060"

\* The lines a task file is made of.
TaskLines ==
    {<<"#", "#", " ", "D", "o", "n", "e">>,
     <<"#", "#", " ", " ", "r", "e", "v", "i", "e", "w">>,
     <<"#", "#", " ", "O", "t", "h", "e", "r">>,
     <<"-", " ", "[", " ", "]", " ", "a">>,
     <<"-", " ", "[", "x", "]", " ", "b">>,
     <<"\t", "-", "[", "X", "]">>,
     <<" ", " ", "-", " ", "[", "x", "]">>,
     <<" ", " ", "c", " ">>,
     <<Tick, Tick, Tick>>,
     <<" ", " ", Tick, Tick, Tick, "a">>,
     <<"a">>,
     <<>>}

\* ---------------------------------------------------------------- initial state
\* TerminalManager::new(): no terminal, no thread, nothing emitted.
InitTerminals ==
    /\ terminals = <<>>
    /\ running = <<>>
    /\ writer = <<>>
    /\ master = <<>>
    /\ child = <<>>
    /\ reader = <<>>
    /\ reaper = <<>>
    /\ events = [i \in Ids |-> <<>>]
    /\ pty = [i \in Ids |-> <<>>]
    /\ regLock = None
    /\ writerLock = <<>>
    /\ masterLock = <<>>
    /\ poisoned = {}
    /\ pc = [c \in Callers |-> "idle"]
    /\ tid = [c \in Callers |-> None]
    /\ proj = [c \in Callers |-> NoProject]
    /\ response = NoResponse
    /\ killed = {}
    /\ inserted = {}
    /\ calls = 0

\* The terminal commands run in a project whose task file is empty.
Init == InitTerminals /\ content = <<>>

\* A step that returns nothing to the frontend.
Silent == response' = NoResponse /\ UNCHANGED content

\* The frontend invokes a command on thread c (one of the handlers lib.rs registers).
Invoke(c) ==
    /\ pc[c] = "idle"
    /\ calls < MaxCalls
    /\ calls' = calls + 1

\* The command in progress on thread c goes on to `label`, working on `id`.
Jump(c, label, id, project_id) ==
    /\ pc' = [pc EXCEPT ![c] = label]
    /\ tid' = [tid EXCEPT ![c] = id]
    /\ proj' = [proj EXCEPT ![c] = project_id]
    /\ Silent
    /\ UNCHANGED killed

\* The same, for a step that inserts nothing into the registry.
Goto(c, label, id, project_id) == Jump(c, label, id, project_id) /\ UNCHANGED inserted

\* The command returns `result`: thread c is idle again.
Return(c, command, terminal_id, project_id, result) ==
    /\ pc' = [pc EXCEPT ![c] = "idle"]
    /\ tid' = [tid EXCEPT ![c] = None]
    /\ proj' = [proj EXCEPT ![c] = NoProject]
    /\ response' = Response(command, terminal_id, project_id, result)
    /\ killed' = IF command = "kill_terminal" THEN killed \cup {terminal_id} ELSE killed
    /\ UNCHANGED <<inserted, content>>

\* ---------------------------------------------------------------- spawn_terminal
\* openpty or spawn_command fails: `?` returns before anything exists.
spawn_terminal_fail_early(c, project_id, stage) ==
    /\ Invoke(c)
    /\ stage \in {"Failed to open PTY", "Failed to spawn command"}
    /\ Return(c, "spawn_terminal", None, project_id, Err(stage))
    /\ UNCHANGED <<sessionVars, lockVars>>

\* Faulty variant: the session is registered before its handles are obtained.
spawn_terminal_fail_handles_registered(c, project_id, stage) ==
    /\ Invoke(c)
    /\ stage \in {"Failed to clone reader", "Failed to take writer"}
    /\ Generated # Ids
    /\ child' = Extend(child, new_v4, "running")
    /\ terminals' = Extend(terminals, new_v4, [id |-> new_v4, project_id |-> project_id])
    /\ Return(c, "spawn_terminal", None, project_id, Err(stage))
    /\ UNCHANGED <<running, writer, master, reader, reaper, events, pty, lockVars>>

\* The child is launched and the id generated, then try_clone_reader or
\* take_writer fails: `?` returns, dropping `child` and `pair`.
spawn_terminal_fail_handles(c, project_id, stage) ==
    /\ Invoke(c)
    /\ stage \in {"Failed to clone reader", "Failed to take writer"}
    /\ Generated # Ids
    /\ child' = Extend(child, new_v4, "running")
    /\ Return(c, "spawn_terminal", None, project_id, Err(stage))
    /\ UNCHANGED <<terminals, running, writer, master, reader, reaper, events, pty, lockVars>>

\* Faulty variant: the threads are started as soon as the handles exist,
\* before the session is stored.
spawn_terminal_open_starts_threads(c, project_id) ==
    /\ Invoke(c)
    /\ Generated # Ids
    /\ LET id == new_v4 IN
        /\ child' = Extend(child, id, "running")
        /\ running' = Extend(running, id, TRUE)
        /\ writer' = Extend(writer, id, <<>>)
        /\ master' = Extend(master, id, PtySize0)
        /\ writerLock' = Extend(writerLock, id, None)
        /\ masterLock' = Extend(masterLock, id, None)
        /\ reader' = Extend(reader, id, "read")
        /\ reaper' = Extend(reaper, id, "waiting")
        /\ Goto(c, "spawn_insert", id, project_id)
    /\ UNCHANGED <<terminals, events, pty, regLock, poisoned>>

\* Lines 59-105 succeed: pty open at 80x24, child launched, id generated,
\* reader cloned, writer taken, the three Arc<Mutex<..>> created.
spawn_terminal_open(c, project_id) ==
    /\ Invoke(c)
    /\ Generated # Ids
    /\ LET id == new_v4 IN
        /\ child' = Extend(child, id, "running")
        /\ running' = Extend(running, id, TRUE)
        /\ writer' = Extend(writer, id, <<>>)
        /\ master' = Extend(master, id, PtySize0)
        /\ writerLock' = Extend(writerLock, id, None)
        /\ masterLock' = Extend(masterLock, id, None)
        /\ Goto(c, "spawn_insert", id, project_id)
    /\ UNCHANGED <<terminals, reader, reaper, events, pty, regLock, poisoned>>

\* Faulty variant: a project has one session, the new one replaces the old.
spawn_terminal_insert_per_project(c) ==
    /\ pc[c] = "spawn_insert"
    /\ regLock = None
    /\ "registry" \notin poisoned
    /\ terminals' =
          LET kept == {id \in DOMAIN terminals : terminals[id].project_id # proj[c]} IN
            Extend([id \in kept |-> terminals[id]], tid[c],
                   [id |-> tid[c], project_id |-> proj[c]])
    /\ inserted' = inserted \cup {tid[c]}
    /\ Jump(c, "spawn_threads", tid[c], proj[c])
    /\ UNCHANGED <<running, writer, master, child, reader, reaper, events, pty, lockVars, calls>>

\* The block of lines 108-120: lock the registry, insert, unlock.
spawn_terminal_insert(c) ==
    /\ pc[c] = "spawn_insert"
    /\ regLock = None
    /\ "registry" \notin poisoned
    /\ terminals' = Extend(terminals, tid[c], [id |-> tid[c], project_id |-> proj[c]])
    /\ inserted' = inserted \cup {tid[c]}
    /\ Jump(c, "spawn_threads", tid[c], proj[c])
    /\ UNCHANGED <<running, writer, master, child, reader, reaper, events, pty, lockVars, calls>>

\* Faulty variant: the session is marked running again when its threads start.
spawn_terminal_threads_marks_running(c) ==
    /\ pc[c] = "spawn_threads"
    /\ reader' = Extend(reader, tid[c], "read")
    /\ reaper' = Extend(reaper, tid[c], "waiting")
    /\ running' = [running EXCEPT ![tid[c]] = TRUE]
    /\ Return(c, "spawn_terminal", None, proj[c], Ok(tid[c]))
    /\ UNCHANGED <<terminals, writer, master, child, events, pty, lockVars, calls>>

\* Faulty variant: the reader thread takes the registry mutex for as long as
\* it runs (the holder is written -id).
spawn_terminal_threads_reader_locks(c) ==
    /\ pc[c] = "spawn_threads"
    /\ regLock = None
    /\ regLock' = 0 - tid[c]
    /\ reader' = Extend(reader, tid[c], "read")
    /\ reaper' = Extend(reaper, tid[c], "waiting")
    /\ Return(c, "spawn_terminal", None, proj[c], Ok(tid[c]))
    /\ UNCHANGED <<terminals, running, writer, master, child, events, pty,
                   writerLock, masterLock, poisoned, calls>>

\* Lines 122-170: start the reader thread and the child-wait thread, return the id.
spawn_terminal_threads(c) ==
    /\ pc[c] = "spawn_threads"
    /\ reader' = Extend(reader, tid[c], "read")
    /\ reaper' = Extend(reaper, tid[c], "waiting")
    /\ Return(c, "spawn_terminal", None, proj[c], Ok(tid[c]))
    /\ UNCHANGED <<terminals, running, writer, master, child, events, pty, lockVars, calls>>

\* ---------------------------------------------------------------- reader thread
\* Faulty variant: the newest chunk is delivered ahead of the earlier ones.
reader_output_prepends(id, chunk) ==
    /\ id \in DOMAIN reader /\ reader[id] = "read"
    /\ chunk \in Chunks /\ chunk = read(id)
    /\ Len(pty[id]) < MaxReads
    /\ pty' = [pty EXCEPT ![id] = Append(@, chunk)]
    /\ events' = [events EXCEPT
                    ![id] = <<Emitted("terminal-output", id, from_utf8_lossy(chunk))>> \o @]
    /\ UNCHANGED <<terminals, running, writer, master, child, reader, reaper,
                   lockVars, callerVars>>
    /\ Silent

\* Faulty variant: the reader only delivers output of a registered session.
reader_output_registered(id, chunk) ==
    /\ id \in DOMAIN reader /\ reader[id] = "read"
    /\ id \in DOMAIN terminals
    /\ chunk \in Chunks /\ chunk = read(id)
    /\ Len(pty[id]) < MaxReads
    /\ pty' = [pty EXCEPT ![id] = Append(@, chunk)]
    /\ events' = emit(id, "terminal-output", from_utf8_lossy(chunk))
    /\ UNCHANGED <<terminals, running, writer, master, child, reader, reaper,
                   lockVars, callerVars>>
    /\ Silent

\* reader.read returns Ok(n), n > 0: the chunk is decoded and emitted.
reader_output(id, chunk) ==
    /\ id \in DOMAIN reader /\ reader[id] = "read"
    /\ chunk \in Chunks /\ chunk = read(id)
    /\ Len(pty[id]) < MaxReads
    /\ pty' = [pty EXCEPT ![id] = Append(@, chunk)]
    /\ events' = emit(id, "terminal-output", from_utf8_lossy(chunk))
    /\ UNCHANGED <<terminals, running, writer, master, child, reader, reaper,
                   lockVars, callerVars>>
    /\ Silent

\* Faulty variant: the loop is left without the flag being cleared.
reader_break_keeps_running(id) ==
    /\ reader' = [reader EXCEPT ![id] = "exit"]
    /\ UNCHANGED <<terminals, running, writer, master, child, reaper, events, pty,
                   lockVars, callerVars>>
    /\ Silent

\* Lines 151-154, after the loop: mark the session as not running.
reader_break(id) ==
    /\ running' = mark_not_running(id)
    /\ reader' = [reader EXCEPT ![id] = "exit"]
    /\ UNCHANGED <<terminals, writer, master, child, reaper, events, pty, lockVars, callerVars>>
    /\ Silent

\* Faulty variant: a read of zero bytes is retried instead of ending the loop.
reader_eof_retries(id) ==
    /\ id \in DOMAIN reader /\ reader[id] = "read"
    /\ child[id] # "running"
    /\ UNCHANGED vars

\* reader.read returns Ok(0): the child's side of the pty is closed.
reader_eof(id) ==
    /\ id \in DOMAIN reader /\ reader[id] = "read"
    /\ child[id] # "running"
    /\ reader_break(id)

\* reader.read returns Err(e).
reader_err(id) ==
    /\ id \in DOMAIN reader /\ reader[id] = "read"
    /\ reader_break(id)

\* Faulty variant: terminal-exit is emitted inside the loop, which goes on.
reader_exit_loops(id) ==
    /\ id \in DOMAIN reader /\ reader[id] = "exit"
    /\ events' = emit(id, "terminal-exit", <<>>)
    /\ reader' = [reader EXCEPT ![id] = "read"]
    /\ UNCHANGED <<pty, terminals, running, writer, master, child, reaper,
                   lockVars, callerVars>>
    /\ Silent

\* Faulty variant: the reader removes the registry entry when the stream ends.
reader_exit_unregisters(id) ==
    /\ id \in DOMAIN reader /\ reader[id] = "exit"
    /\ regLock = None
    /\ terminals' = Remove(terminals, id)
    /\ events' = emit(id, "terminal-exit", <<>>)
    /\ reader' = [reader EXCEPT ![id] = "done"]
    /\ UNCHANGED <<pty, running, writer, master, child, reaper, lockVars, callerVars>>
    /\ Silent

\* Lines 156-162: emit terminal-exit with empty data; the thread ends.
reader_exit(id) ==
    /\ id \in DOMAIN reader /\ reader[id] = "exit"
    /\ events' = emit(id, "terminal-exit", <<>>)
    /\ reader' = [reader EXCEPT ![id] = "done"]
    /\ UNCHANGED <<pty, terminals, running, writer, master, child, reaper,
                   lockVars, callerVars>>
    /\ Silent

\* ---------------------------------------------------------------- child and child-wait thread
\* Faulty variant: the child-wait thread marks the session not running.
child_exit_marks_not_running(id) ==
    /\ id \in DOMAIN child /\ child[id] = "running"
    /\ IF id \in DOMAIN reaper
         THEN /\ child' = [child EXCEPT ![id] = "reaped"]
              /\ reaper' = [reaper EXCEPT ![id] = "done"]
              /\ running' = mark_not_running(id)
         ELSE /\ child' = [child EXCEPT ![id] = "exited"]
              /\ UNCHANGED <<reaper, running>>
    /\ UNCHANGED <<terminals, writer, master, reader, events, pty,
                   lockVars, callerVars>>
    /\ Silent

\* The shell exits (on its own, on the interrupt, or when its pty goes away).
\* A child-wait thread blocked in child.wait() returns with it.
child_exit(id) ==
    /\ id \in DOMAIN child /\ child[id] = "running"
    /\ IF id \in DOMAIN reaper
         THEN /\ child' = [child EXCEPT ![id] = "reaped"]
              /\ reaper' = [reaper EXCEPT ![id] = "done"]
         ELSE /\ child' = [child EXCEPT ![id] = "exited"]
              /\ UNCHANGED reaper
    /\ UNCHANGED <<terminals, running, writer, master, reader, events, pty,
                   lockVars, callerVars>>
    /\ Silent

\* Lines 165-168: child.wait() on a child that has already exited.
child_wait(id) ==
    /\ id \in DOMAIN reaper /\ reaper[id] = "waiting"
    /\ child[id] = "exited"
    /\ child' = [child EXCEPT ![id] = "reaped"]
    /\ reaper' = [reaper EXCEPT ![id] = "done"]
    /\ UNCHANGED <<terminals, running, writer, master, reader, events, pty,
                   lockVars, callerVars>>
    /\ Silent

\* ---------------------------------------------------------------- write_terminal
\* Faulty variant: the data is written without taking the writer mutex (nor
\* keeping the registry guard).
write_terminal_begin_unlocked(c, terminal_id) ==
    /\ Invoke(c)
    /\ terminal_id \in DOMAIN writer => Len(writer[terminal_id]) < MaxInput
    /\ regLock = None
    /\ "registry" \notin poisoned
    /\ IF terminal_id \notin DOMAIN terminals
         THEN Return(c, "write_terminal", terminal_id, NoProject, Err(NotFound))
         ELSE Goto(c, "write_io", terminal_id, NoProject)
    /\ UNCHANGED <<sessionVars, lockVars>>

\* Faulty variant: the writer is locked after the registry guard is dropped.
write_terminal_begin_drops_registry(c, terminal_id) ==
    /\ Invoke(c)
    /\ terminal_id \in DOMAIN writer => Len(writer[terminal_id]) < MaxInput
    /\ regLock = None
    /\ "registry" \notin poisoned
    /\ IF terminal_id \notin DOMAIN terminals
         THEN /\ Return(c, "write_terminal", terminal_id, NoProject, Err(NotFound))
              /\ UNCHANGED writerLock
         ELSE /\ writerLock[terminal_id] = None
              /\ writerLock' = [writerLock EXCEPT ![terminal_id] = c]
              /\ Goto(c, "write_io", terminal_id, NoProject)
    /\ UNCHANGED <<sessionVars, regLock, masterLock, poisoned>>

\* Faulty variant: a session that is not running is reported as not found.
write_terminal_begin_checks_running(c, terminal_id) ==
    /\ Invoke(c)
    /\ terminal_id \in DOMAIN writer => Len(writer[terminal_id]) < MaxInput
    /\ regLock = None
    /\ "registry" \notin poisoned
    /\ IF terminal_id \notin DOMAIN terminals \/ ~running[terminal_id]
         THEN /\ Return(c, "write_terminal", terminal_id, NoProject, Err(NotFound))
              /\ UNCHANGED <<regLock, writerLock>>
         ELSE /\ writerLock[terminal_id] = None
              /\ regLock' = c
              /\ writerLock' = [writerLock EXCEPT ![terminal_id] = c]
              /\ Goto(c, "write_io", terminal_id, NoProject)
    /\ UNCHANGED <<sessionVars, masterLock, poisoned>>

\* Lines 179-185: lock the registry (the guard lives to the end of the
\* function), look the terminal up, lock its writer.
write_terminal_begin(c, terminal_id) ==
    /\ Invoke(c)
    /\ terminal_id \in DOMAIN writer => Len(writer[terminal_id]) < MaxInput
    /\ regLock = None
    /\ "registry" \notin poisoned
    /\ IF terminal_id \notin DOMAIN terminals
         THEN /\ Return(c, "write_terminal", terminal_id, NoProject, Err(NotFound))
              /\ UNCHANGED <<regLock, writerLock>>
         ELSE /\ writerLock[terminal_id] = None
              /\ IF <<"writer", terminal_id>> \in poisoned
                   THEN /\ Return(c, "write_terminal", terminal_id, NoProject, Err(PoisonError))
                        /\ UNCHANGED <<regLock, writerLock>>
                   ELSE /\ regLock' = c
                        /\ writerLock' = [writerLock EXCEPT ![terminal_id] = c]
                        /\ Goto(c, "write_io", terminal_id, NoProject)
    /\ UNCHANGED <<sessionVars, masterLock, poisoned>>

\* Faulty variant: a write that fails discards the session.
write_terminal_io_unregisters(c, outcome) ==
    /\ pc[c] = "write_io"
    /\ outcome \in {"ok", "Failed to write to terminal", "Failed to flush"}
    /\ writer' = IF outcome = "Failed to write to terminal" THEN writer
                 ELSE [writer EXCEPT ![tid[c]] = @ \o Payload]
    /\ terminals' = IF outcome = "ok" THEN terminals ELSE Remove(terminals, tid[c])
    /\ Return(c, "write_terminal", tid[c], NoProject,
              IF outcome = "ok" THEN Ok(Unit) ELSE Err(outcome))
    /\ writerLock' = [writerLock EXCEPT ![tid[c]] = None]
    /\ regLock' = None
    /\ UNCHANGED <<running, master, child, reader, reaper, events, pty,
                   masterLock, poisoned, calls>>

\* Lines 186-193: write_all, flush, return (both guards dropped).
write_terminal_io(c, outcome) ==
    /\ pc[c] = "write_io"
    /\ outcome \in {"ok", "Failed to write to terminal", "Failed to flush"}
    /\ writer' = IF outcome = "Failed to write to terminal" THEN writer
                 ELSE [writer EXCEPT ![tid[c]] = @ \o Payload]
    /\ Return(c, "write_terminal", tid[c], NoProject,
              IF outcome = "ok" THEN Ok(Unit) ELSE Err(outcome))
    /\ writerLock' = [writerLock EXCEPT ![tid[c]] = None]
    /\ regLock' = None
    /\ UNCHANGED <<terminals, running, master, child, reader, reaper, events, pty,
                   masterLock, poisoned, calls>>

\* ---------------------------------------------------------------- resize_terminal
\* Faulty variant: a resize of an unknown terminal is silently accepted.
resize_terminal_begin_ignores_unknown(c, terminal_id) ==
    /\ Invoke(c)
    /\ regLock = None
    /\ "registry" \notin poisoned
    /\ IF terminal_id \notin DOMAIN terminals
         THEN /\ Return(c, "resize_terminal", terminal_id, NoProject, Ok(Unit))
              /\ UNCHANGED <<regLock, masterLock>>
         ELSE /\ masterLock[terminal_id] = None
              /\ IF <<"master", terminal_id>> \in poisoned
                   THEN /\ Return(c, "resize_terminal", terminal_id, NoProject, Err(PoisonError))
                        /\ UNCHANGED <<regLock, masterLock>>
                   ELSE /\ regLock' = c
                        /\ masterLock' = [masterLock EXCEPT ![terminal_id] = c]
                        /\ Goto(c, "resize_io", terminal_id, NoProject)
    /\ UNCHANGED <<sessionVars, writerLock, poisoned>>

\* Lines 203-209: lock the registry, look the terminal up, lock its master.
resize_terminal_begin(c, terminal_id) ==
    /\ Invoke(c)
    /\ regLock = None
    /\ "registry" \notin poisoned
    /\ IF terminal_id \notin DOMAIN terminals
         THEN /\ Return(c, "resize_terminal", terminal_id, NoProject, Err(NotFound))
              /\ UNCHANGED <<regLock, masterLock>>
         ELSE /\ masterLock[terminal_id] = None
              /\ IF <<"master", terminal_id>> \in poisoned
                   THEN /\ Return(c, "resize_terminal", terminal_id, NoProject, Err(PoisonError))
                        /\ UNCHANGED <<regLock, masterLock>>
                   ELSE /\ regLock' = c
                        /\ masterLock' = [masterLock EXCEPT ![terminal_id] = c]
                        /\ Goto(c, "resize_io", terminal_id, NoProject)
    /\ UNCHANGED <<sessionVars, writerLock, poisoned>>

\* Lines 210-219: master.resize(PtySize {rows, cols, ..}), return.
resize_terminal_io(c, outcome) ==
    /\ pc[c] = "resize_io"
    /\ outcome \in {"ok", "Failed to resize terminal"}
    /\ master' = IF outcome = "ok" THEN [master EXCEPT ![tid[c]] = NewSize] ELSE master
    /\ Return(c, "resize_terminal", tid[c], NoProject,
              IF outcome = "ok" THEN Ok(Unit) ELSE Err(outcome))
    /\ masterLock' = [masterLock EXCEPT ![tid[c]] = None]
    /\ regLock' = None
    /\ UNCHANGED <<terminals, running, writer, child, reader, reaper, events, pty,
                   writerLock, poisoned, calls>>

\* ---------------------------------------------------------------- kill_terminal
\* Lines 227-236: lock the registry, remove the entry; if there was one, mark
\* it not running (the running mutex is held for the assignment only) and
\* lock its writer.
kill_terminal_begin(c, terminal_id) ==
    /\ Invoke(c)
    /\ regLock = None
    /\ "registry" \notin poisoned
    /\ IF terminal_id \notin DOMAIN terminals
         THEN /\ Return(c, "kill_terminal", terminal_id, NoProject, Ok(Unit))
              /\ UNCHANGED <<terminals, running, regLock, writerLock>>
         ELSE /\ terminals' = Remove(terminals, terminal_id)
              /\ running' = mark_not_running(terminal_id)
              /\ writerLock[terminal_id] = None
              /\ IF <<"writer", terminal_id>> \in poisoned
                   THEN /\ Return(c, "kill_terminal", terminal_id, NoProject, Ok(Unit))
                        /\ UNCHANGED <<regLock, writerLock>>
                   ELSE /\ regLock' = c
                        /\ writerLock' = [writerLock EXCEPT ![terminal_id] = c]
                        /\ Goto(c, "kill_io", terminal_id, NoProject)
    /\ UNCHANGED <<writer, master, child, reader, reaper, events, pty, masterLock, poisoned>>

\* Faulty variant: a failure to send the interrupt is returned to the caller.
kill_terminal_io_reports(c, outcome) ==
    /\ pc[c] = "kill_io"
    /\ outcome \in {"ok", "failed"}
    /\ writer' = IF outcome = "ok" THEN [writer EXCEPT ![tid[c]] = Append(@, CtrlC)]
                 ELSE writer
    /\ Return(c, "kill_terminal", tid[c], NoProject,
              IF outcome = "ok" THEN Ok(Unit) ELSE Err("Failed to write to terminal"))
    /\ writerLock' = [writerLock EXCEPT ![tid[c]] = None]
    /\ regLock' = None
    /\ UNCHANGED <<terminals, running, master, child, reader, reaper, events, pty,
                   masterLock, poisoned, calls>>

\* Lines 237-242: write_all(&[3]) and flush, results ignored; return Ok.
kill_terminal_io(c, outcome) ==
    /\ pc[c] = "kill_io"
    /\ outcome \in {"ok", "failed"}
    /\ writer' = IF outcome = "ok" THEN [writer EXCEPT ![tid[c]] = Append(@, CtrlC)]
                 ELSE writer
    /\ Return(c, "kill_terminal", tid[c], NoProject, Ok(Unit))
    /\ writerLock' = [writerLock EXCEPT ![tid[c]] = None]
    /\ regLock' = None
    /\ UNCHANGED <<terminals, running, master, child, reader, reaper, events, pty,
                   masterLock, poisoned, calls>>

\* ---------------------------------------------------------------- queries
\* Faulty variant: an unknown id is an error, as it is for write and resize.
get_terminal_status_not_found(c, terminal_id) ==
    /\ Invoke(c)
    /\ regLock = None
    /\ "registry" \notin poisoned
    /\ Return(c, "get_terminal_status", terminal_id, NoProject,
              IF terminal_id \in DOMAIN terminals
                THEN Ok(is_running(terminal_id))
                ELSE Err(NotFound))
    /\ UNCHANGED <<sessionVars, lockVars>>

\* Faulty variant: a registered session is reported running whatever its flag.
get_terminal_status_registered(c, terminal_id) ==
    /\ Invoke(c)
    /\ regLock = None
    /\ "registry" \notin poisoned
    /\ Return(c, "get_terminal_status", terminal_id, NoProject,
              Ok(terminal_id \in DOMAIN terminals))
    /\ UNCHANGED <<sessionVars, lockVars>>

\* get_terminal_status: registry lock, lookup, running lock, read; all
\* released on return.
get_terminal_status(c, terminal_id) ==
    /\ Invoke(c)
    /\ regLock = None
    /\ "registry" \notin poisoned
    /\ Return(c, "get_terminal_status", terminal_id, NoProject,
              IF terminal_id \in DOMAIN terminals /\ <<"running", terminal_id>> \notin poisoned
                THEN Ok(running[terminal_id])
                ELSE Ok(FALSE))
    /\ UNCHANGED <<sessionVars, lockVars>>

\* Faulty variant: the scan does not compare the project id.
get_terminal_for_project_any(c, project_id) ==
    /\ Invoke(c)
    /\ regLock = None
    /\ "registry" \notin poisoned
    /\ LET matches == DOMAIN terminals IN
         IF matches = {}
           THEN Return(c, "get_terminal_for_project", None, project_id, Ok(Nothing))
           ELSE \E id \in matches :
                  Return(c, "get_terminal_for_project", None, project_id,
                         Ok(Some(TerminalInfo(id))))
    /\ UNCHANGED <<sessionVars, lockVars>>

\* get_terminal_for_project: the first match in the map's iteration order,
\* which HashMap leaves unspecified.
get_terminal_for_project(c, project_id) ==
    /\ Invoke(c)
    /\ regLock = None
    /\ "registry" \notin poisoned
    /\ LET matches == {id \in DOMAIN terminals : terminals[id].project_id = project_id} IN
         IF matches = {}
           THEN Return(c, "get_terminal_for_project", None, project_id, Ok(Nothing))
           ELSE \E id \in matches :
                  Return(c, "get_terminal_for_project", None, project_id,
                         Ok(Some(TerminalInfo(id))))
    /\ UNCHANGED <<sessionVars, lockVars>>

\* Faulty variant: sessions that are not running are left out.
list_terminals_running_only(c) ==
    /\ Invoke(c)
    /\ regLock = None
    /\ "registry" \notin poisoned
    /\ \E order \in Orders({id \in DOMAIN terminals : is_running(id)}) :
          Return(c, "list_terminals", None, NoProject,
                 Ok([i \in DOMAIN order |-> TerminalInfo(order[i])]))
    /\ UNCHANGED <<sessionVars, lockVars>>

\* list_terminals: a Vec with one TerminalInfo per value of the map, in the
\* map's iteration order, which HashMap leaves unspecified.
list_terminals(c) ==
    /\ Invoke(c)
    /\ regLock = None
    /\ "registry" \notin poisoned
    /\ \E order \in Orders(DOMAIN terminals) :
          Return(c, "list_terminals", None, NoProject,
                 Ok([i \in DOMAIN order |-> TerminalInfo(order[i])]))
    /\ UNCHANGED <<sessionVars, lockVars>>

\* ---------------------------------------------------------------- specification
spawn_terminal(c) ==
    \/ \E p \in Projects, stage \in {"Failed to open PTY", "Failed to spawn command"} :
          spawn_terminal_fail_early(c, p, stage)
    \/ \E p \in Projects, stage \in {"Failed to clone reader", "Failed to take writer"} :
          spawn_terminal_fail_handles(c, p, stage)
    \/ \E p \in Projects : spawn_terminal_open(c, p)
    \/ spawn_terminal_insert(c)
    \/ spawn_terminal_threads(c)

write_terminal(c) ==
    \/ \E id \in CallIds : write_terminal_begin(c, id)
    \/ \E outcome \in {"ok", "Failed to write to terminal", "Failed to flush"} :
          write_terminal_io(c, outcome)

resize_terminal(c) ==
    \/ \E id \in CallIds : resize_terminal_begin(c, id)
    \/ \E outcome \in {"ok", "Failed to resize terminal"} : resize_terminal_io(c, outcome)

kill_terminal(c) ==
    \/ \E id \in CallIds : kill_terminal_begin(c, id)
    \/ \E outcome \in {"ok", "failed"} : kill_terminal_io(c, outcome)

Command(c) ==
    \/ spawn_terminal(c)
    \/ write_terminal(c)
    \/ resize_terminal(c)
    \/ kill_terminal(c)
    \/ \E id \in CallIds : get_terminal_status(c, id)
    \/ \E p \in Projects : get_terminal_for_project(c, p)
    \/ list_terminals(c)

ReaderThread(id) ==
    \/ \E chunk \in Chunks : reader_output(id, chunk)
    \/ reader_eof(id)
    \/ reader_err(id)
    \/ reader_exit(id)

ChildWaitThread(id) ==
    \/ child_exit(id)
    \/ child_wait(id)

Next ==
    \/ \E c \in Callers : Command(c)
    \/ \E id \in Ids : ReaderThread(id)
    \/ \E id \in Ids : ChildWaitThread(id)

Spec == Init /\ [][Next]_vars

\* The reader thread is scheduled: when its read can return end of stream it
\* does, and after the loop it goes on to emit terminal-exit.  Whether a read
\* returns data or an error is up to the pty, and the commands are up to the
\* frontend: neither is forced.
Fairness == \A id \in Ids : WF_vars(reader_eof(id)) /\ WF_vars(reader_exit(id))

SpecFair == Spec /\ Fairness

\* ---------------------------------------------------------------- finer steps
\* The same commands with two of their steps taken apart: what the threads
\* started at lines 124 and 166 do before line 170 returns, and what happens
\* between the write calls that write_all makes.

\* Lines 122-168: start the reader thread and the child-wait thread.
spawn_terminal_start(c) ==
    /\ pc[c] = "spawn_threads"
    /\ reader' = Extend(reader, tid[c], "read")
    /\ reaper' = Extend(reaper, tid[c], "waiting")
    /\ Goto(c, "spawn_return", tid[c], proj[c])
    /\ UNCHANGED <<terminals, running, writer, master, child, events, pty, lockVars, calls>>

\* Line 170: Ok(terminal_id).
spawn_terminal_return(c) ==
    /\ pc[c] = "spawn_return"
    /\ Return(c, "spawn_terminal", None, proj[c], Ok(tid[c]))
    /\ UNCHANGED <<sessionVars, lockVars, calls>>

\* Line 187, write_all: its first write call takes the first byte only.
write_terminal_write(c) ==
    /\ pc[c] = "write_io"
    /\ writer' = [writer EXCEPT ![tid[c]] = Append(@, Head(Payload))]
    /\ Goto(c, "write_more", tid[c], NoProject)
    /\ UNCHANGED <<terminals, running, master, child, reader, reaper, events, pty,
                   lockVars, calls>>

\* Lines 187-193 after that: the next write call takes the rest or fails;
\* flush; return (both guards dropped).
write_terminal_rest(c, outcome) ==
    /\ pc[c] = "write_more"
    /\ outcome \in {"ok", "Failed to write to terminal", "Failed to flush"}
    /\ writer' = IF outcome = "Failed to write to terminal" THEN writer
                 ELSE [writer EXCEPT ![tid[c]] = @ \o Tail(Payload)]
    /\ Return(c, "write_terminal", tid[c], NoProject,
              IF outcome = "ok" THEN Ok(Unit) ELSE Err(outcome))
    /\ writerLock' = [writerLock EXCEPT ![tid[c]] = None]
    /\ regLock' = None
    /\ UNCHANGED <<terminals, running, master, child, reader, reaper, events, pty,
                   masterLock, poisoned, calls>>

NextSteps ==
    \/ Next
    \/ \E c \in Callers : spawn_terminal_start(c)
    \/ \E c \in Callers : spawn_terminal_return(c)
    \/ \E c \in Callers : write_terminal_write(c)
    \/ \E c \in Callers :
          \E outcome \in {"ok", "Failed to write to terminal", "Failed to flush"} :
             write_terminal_rest(c, outcome)

SpecSteps == Init /\ [][NextSteps]_vars

\* ---------------------------------------------------------------- poisoned mutexes
\* The Write or MasterPty implementation panics inside write_all, flush or
\* resize: the thread unwinds, and the guards it drops poison their mutexes.
\* The frontend gets no response.
io_panic(c) ==
    /\ pc[c] \in {"write_io", "resize_io", "kill_io"}
    /\ poisoned' = poisoned \cup {"registry", <<IF pc[c] = "resize_io" THEN "master" ELSE "writer", tid[c]>>}
    /\ regLock' = None
    /\ writerLock' = IF pc[c] = "resize_io" THEN writerLock
                     ELSE [writerLock EXCEPT ![tid[c]] = None]
    /\ masterLock' = IF pc[c] = "resize_io" THEN [masterLock EXCEPT ![tid[c]] = None]
                     ELSE masterLock
    /\ pc' = [pc EXCEPT ![c] = "idle"]
    /\ tid' = [tid EXCEPT ![c] = None]
    /\ Silent
    /\ UNCHANGED <<sessionVars, proj, killed, inserted, calls>>

\* Faulty variant: on a poisoned registry the status query answers false.
registry_poisoned_substitutes(c, command, terminal_id, project_id) ==
    /\ "registry" \in poisoned
    /\ Invoke(c)
    /\ \/ /\ command \in {"write_terminal", "resize_terminal", "kill_terminal",
                          "get_terminal_status"}
          /\ terminal_id \in CallIds /\ project_id = NoProject
       \/ /\ command = "get_terminal_for_project"
          /\ terminal_id = None /\ project_id \in Projects
       \/ /\ command = "list_terminals"
          /\ terminal_id = None /\ project_id = NoProject
    /\ regLock = None
    /\ Return(c, command, terminal_id, project_id,
              IF command = "get_terminal_status" THEN Ok(FALSE) ELSE Err(PoisonError))
    /\ UNCHANGED <<sessionVars, lockVars>>

\* state.terminals.lock().map_err(|e| e.to_string())? on a poisoned registry
\* mutex, the first statement of every command but spawn_terminal.
registry_poisoned(c, command, terminal_id, project_id) ==
    /\ "registry" \in poisoned
    /\ Invoke(c)
    /\ \/ /\ command \in {"write_terminal", "resize_terminal", "kill_terminal",
                          "get_terminal_status"}
          /\ terminal_id \in CallIds /\ project_id = NoProject
       \/ /\ command = "get_terminal_for_project"
          /\ terminal_id = None /\ project_id \in Projects
       \/ /\ command = "list_terminals"
          /\ terminal_id = None /\ project_id = NoProject
    /\ regLock = None
    /\ Return(c, command, terminal_id, project_id, Err(PoisonError))
    /\ UNCHANGED <<sessionVars, lockVars>>

\* Line 109 on a poisoned registry mutex: spawn_terminal returns the error;
\* child, reader, writer, master and the running flag are dropped.
spawn_terminal_insert_poisoned(c) ==
    /\ pc[c] = "spawn_insert"
    /\ regLock = None
    /\ "registry" \in poisoned
    /\ Return(c, "spawn_terminal", None, proj[c], Err(PoisonError))
    /\ running' = Remove(running, tid[c])
    /\ writer' = Remove(writer, tid[c])
    /\ master' = Remove(master, tid[c])
    /\ writerLock' = Remove(writerLock, tid[c])
    /\ masterLock' = Remove(masterLock, tid[c])
    /\ UNCHANGED <<terminals, child, reader, reaper, events, pty, regLock, poisoned, calls>>

NextPoison ==
    \/ Next
    \/ \E c \in Callers : io_panic(c)
    \/ \E c \in Callers : spawn_terminal_insert_poisoned(c)
    \/ \E c \in Callers, id \in CallIds \cup {None}, p \in Projects \cup {NoProject} :
          \E command \in {"write_terminal", "resize_terminal", "kill_terminal",
                           "get_terminal_status", "get_terminal_for_project",
                           "list_terminals"} :
             registry_poisoned(c, command, id, p)

SpecPoison == Init /\ [][NextPoison]_vars

\* ---------------------------------------------------------------- tasks.rs: text
\* A &str is the sequence of its characters.  The characters the task files
\* below are made of include two that char::is_whitespace accepts.
is_whitespace(ch) == ch \in {" ", "\t"}

RECURSIVE trim_start(_)
trim_start(s) ==
    IF s # <<>> /\ is_whitespace(Head(s)) THEN trim_start(Tail(s)) ELSE s

RECURSIVE trim_end(_)
trim_end(s) ==
    IF s # <<>> /\ is_whitespace(s[Len(s)]) THEN trim_end(SubSeq(s, 1, Len(s) - 1)) ELSE s

trim(s) == trim_end(trim_start(s))

starts_with(s, prefix) == Len(s) >= Len(prefix) /\ SubSeq(s, 1, Len(prefix)) = prefix

\* str::lines on what is left of a text, `line` being the line in progress: a
\* line ends at "\n" (a "\r" before it goes too); a last line needs no "\n",
\* and there is no empty line after a final "\n".
RECURSIVE lines_from(_, _)
lines_from(text, line) ==
    IF text = <<>>
      THEN IF line = <<>> THEN <<>> ELSE <<line>>
      ELSE IF Head(text) = "\n"
        THEN <<IF line # <<>> /\ line[Len(line)] = "\r"
                 THEN SubSeq(line, 1, Len(line) - 1) ELSE line>>
             \o lines_from(Tail(text), <<>>)
        ELSE lines_from(Tail(text), Append(line, Head(text)))

lines(text) == lines_from(text, <<>>)

\* [String]::join("\n")
RECURSIVE join(_)
join(strs) ==
    IF strs = <<>> THEN <<>>
    ELSE IF Len(strs) = 1 THEN strs[1]
    ELSE strs[1] \o <<"\n">> \o join(Tail(strs))

\* The first index at or after i that holds no whitespace (\s* from i).
RECURSIVE skip_spaces(_, _)
skip_spaces(s, i) ==
    IF i <= Len(s) /\ is_whitespace(s[i]) THEN skip_spaces(s, i + 1) ELSE i

\* line.trim().starts_with of three U+0060
Fence == <<Tick, Tick, Tick>>
is_fence(line) == starts_with(trim(line), Fence)

\* ^\s*-\s*\[([ xX])\] : the index of the captured status character, 0 when
\* the line does not match.
checkbox_re(line) ==
    LET dash == skip_spaces(line, 1) IN
      IF dash <= Len(line) /\ line[dash] = "-"
        THEN LET open == skip_spaces(line, dash + 1) IN
               IF /\ open + 2 <= Len(line)
                  /\ line[open] = "["
                  /\ line[open + 1] \in {" ", "x", "X"}
                  /\ line[open + 2] = "]"
                 THEN open + 1 ELSE 0
        ELSE 0

\* ---------------------------------------------------------------- tasks.rs: parse_tasks
\* The loop of lines 118-139, from line i on.
RECURSIVE parse_tasks_loop(_, _, _, _, _)
parse_tasks_loop(ls, i, total, completed, in_code_block) ==
    IF i > Len(ls) THEN <<total, completed>>
    ELSE IF is_fence(ls[i])
      THEN parse_tasks_loop(ls, i + 1, total, completed, ~in_code_block)
    ELSE IF in_code_block
      THEN parse_tasks_loop(ls, i + 1, total, completed, in_code_block)
    ELSE IF checkbox_re(ls[i]) # 0
      THEN parse_tasks_loop(ls, i + 1, total + 1,
                            IF ls[i][checkbox_re(ls[i])] \in {"x", "X"}
                              THEN completed + 1 ELSE completed,
                            in_code_block)
    ELSE parse_tasks_loop(ls, i + 1, total, completed, in_code_block)

\* Faulty variant: checkboxes inside fenced code blocks are counted too.
parse_tasks_counts_code(text) ==
    parse_tasks_loop(SelectSeq(lines(text), LAMBDA line : ~is_fence(line)), 1, 0, 0, FALSE)

parse_tasks(text) == parse_tasks_loop(lines(text), 1, 0, 0, FALSE)

\* get_task_progress for a project directory in which one of TASK_FILES
\* exists, holding `content`; percentage is kept to its whole part.
get_task_progress(c) ==
    /\ Invoke(c)
    /\ LET total == parse_tasks(content)[1]
           completed == parse_tasks(content)[2]
       IN Return(c, "get_task_progress", None, NoProject,
                 Ok([total |-> total, completed |-> completed,
                     percentage |-> IF total > 0 THEN (completed * 100) \div total ELSE 0]))
    /\ UNCHANGED <<sessionVars, lockVars>>

\* ---------------------------------------------------------------- tasks.rs: parse_tasks_md
\* ^(\s*)-\s*\[([ xX])\]\s*(.+)$ : a checkbox followed by at least one character.
task_re(line) == checkbox_re(line) # 0 /\ checkbox_re(line) + 2 <= Len(line)

\* Capture 3 of task_re on a matching line: what follows the whitespace after
\* the checkbox, or the last character when only whitespace follows (\s* gives
\* one back to .+).
task_re_3(line) ==
    LET start == skip_spaces(line, checkbox_re(line) + 2) IN
      IF start <= Len(line) THEN SubSeq(line, start, Len(line))
      ELSE SubSeq(line, Len(line), Len(line))

\* ^##\s+(.+)$
heading_re(line) ==
    /\ Len(line) >= 4
    /\ line[1] = "#"
    /\ line[2] = "#"
    /\ is_whitespace(line[3])

\* Capture 1 of heading_re on a matching line.
heading_re_1(line) ==
    LET start == skip_spaces(line, 3) IN
      IF start <= Len(line) THEN SubSeq(line, start, Len(line))
      ELSE SubSeq(line, Len(line), Len(line))

\* str::to_lowercase on the letters of the alphabet.
Upper == <<"A", "B", "C", "D", "E", "F", "G", "H", "I", "J", "K", "L", "M",
           "N", "O", "P", "Q", "R", "S", "T", "U", "V", "W", "X", "Y", "Z">>
Lower == <<"a", "b", "c", "d", "e", "f", "g", "h", "i", "j", "k", "l", "m",
           "n", "o", "p", "q", "r", "s", "t", "u", "v", "w", "x", "y", "z">>
to_lowercase(s) ==
    [i \in 1..Len(s) |->
       IF \E k \in 1..26 : Upper[k] = s[i]
         THEN Lower[CHOOSE k \in 1..26 : Upper[k] = s[i]]
         ELSE s[i]]

COLUMN_HEADINGS ==
    << <<"backlog", <<"#", "#", " ", "B", "a", "c", "k", "l", "o", "g">> >>,
       <<"in_progress", <<"#", "#", " ", "I", "n", " ", "P", "r", "o", "g", "r", "e", "s", "s">> >>,
       <<"review", <<"#", "#", " ", "R", "e", "v", "i", "e", "w">> >>,
       <<"done", <<"#", "#", " ", "D", "o", "n", "e">> >> >>

\* The column of the first heading equal to `heading` up to case, if any.
heading_to_column(heading) ==
    LET hits == {k \in 1..Len(COLUMN_HEADINGS) :
                   to_lowercase(heading) = to_lowercase(COLUMN_HEADINGS[k][2])}
    IN IF hits = {} THEN Nothing
       ELSE Some(COLUMN_HEADINGS[CHOOSE k \in hits : \A m \in hits : k <= m][1])

\* format!("## {}", heading_text)
full_heading(line) == <<"#", "#", " ">> \o heading_re_1(line)

\* The condition of lines 327-330: next_line is description.
is_description(next_line) ==
    /\ starts_with(next_line, <<" ", " ">>)
    /\ trim(next_line) # <<>>
    /\ ~task_re(next_line)
    /\ ~heading_re(next_line)
    /\ ~is_fence(next_line)

\* The look-ahead of lines 324-337: where j stops.
RECURSIVE look_ahead(_, _)
look_ahead(ls, j) ==
    IF j <= Len(ls) /\ is_description(ls[j]) THEN look_ahead(ls, j + 1) ELSE j

\* The task pushed at lines 345-352 for line i, j being where the look-ahead
\* stopped; its id is the n-th uuid generated by the call.
TasksMdTask(ls, i, j, n, current_col) ==
    [id |-> n,
     subject |-> trim(task_re_3(ls[i])),
     description |-> IF j = i + 1 THEN Nothing
                     ELSE Some(join([k \in 1..(j - i - 1) |-> trim(ls[i + k])])),
     column |-> current_col,
     completed |-> ls[i][checkbox_re(ls[i])] \in {"x", "X"},
     line_number |-> i]

\* The loop of lines 287-360, from line i on (lines are counted from 1 here,
\* so i is the code's line_number).
RECURSIVE parse_tasks_md_loop(_, _, _, _, _)
parse_tasks_md_loop(ls, i, tasks, current_column, in_code_block) ==
    IF i > Len(ls) THEN tasks
    ELSE IF is_fence(ls[i])
      THEN parse_tasks_md_loop(ls, i + 1, tasks, current_column, ~in_code_block)
    ELSE IF in_code_block
      THEN parse_tasks_md_loop(ls, i + 1, tasks, current_column, in_code_block)
    ELSE IF heading_re(ls[i])
      THEN parse_tasks_md_loop(ls, i + 1, tasks,
                               IF heading_to_column(full_heading(ls[i])) # Nothing
                                 THEN heading_to_column(full_heading(ls[i]))
                                 ELSE current_column,
                               in_code_block)
    ELSE IF current_column # Nothing /\ task_re(ls[i])
      THEN LET j == look_ahead(ls, i + 1) IN
             parse_tasks_md_loop(ls, j,
                                 Append(tasks, TasksMdTask(ls, i, j, Len(tasks) + 1,
                                                           CHOOSE col \in current_column : TRUE)),
                                 current_column, in_code_block)
    ELSE parse_tasks_md_loop(ls, i + 1, tasks, current_column, in_code_block)

\* Faulty variant: a task before any heading lands in the backlog.
parse_tasks_md_defaults_backlog(text) ==
    parse_tasks_md_loop(lines(text), 1, <<>>, Some("backlog"), FALSE)

parse_tasks_md(text) == parse_tasks_md_loop(lines(text), 1, <<>>, Nothing, FALSE)

\* read_tasks_md for a project whose TASKS.md holds `content` (an absent file
\* gives the same Ok(vec![]) as an empty one).
read_tasks_md(c) ==
    /\ Invoke(c)
    /\ Return(c, "read_tasks_md", None, NoProject, Ok(parse_tasks_md(content)))
    /\ UNCHANGED <<sessionVars, lockVars>>

\* ---------------------------------------------------------------- the task commands
\* The task files a project may hold: up to MaxLines of the lines above,
\* joined by newlines.
Contents == {join(ls) : ls \in UNION {[1..n -> TaskLines] : n \in 0..MaxLines}}

InitTasks == InitTerminals /\ content \in Contents

NextTasks == \E c \in Callers : get_task_progress(c) \/ read_tasks_md(c)

SpecTasks == InitTasks /\ [][NextTasks]_vars

\* ================================================================ claims
\* The reader of `id` has left its loop (and marked the session not running).
Finished(id) == id \in DOMAIN reader /\ reader[id] \in {"exit", "done"}

\* A kill_terminal(id) that is between removing the entry and returning.
Killing(id) == \E c \in Callers : pc[c] = "kill_io" /\ tid[c] = id

\* C1: for every session, at most one terminal-exit event is ever emitted for
\* its id, and once it has been emitted no terminal-output event with the same
\* id follows: in the events of one id, a terminal-exit is always the last one.
C1_ExitOnceAndLast ==
    \A id \in Ids : \A i \in 1..Len(events[id]) :
        events[id][i].event = "terminal-exit" => i = Len(events[id])

\* The reader of a killed session emitted a chunk and then its exit.
C1_Witness ==
    \E id \in killed \cap Ids :
        /\ Len(events[id]) = 2
        /\ events[id][1].event = "terminal-output"
        /\ events[id][2].event = "terminal-exit"
        /\ reader[id] = "done"

\* C2: the running flag of a session starts true when the session is created
\* and, once false, is never true again, whatever step is taken.
C2_LivenessMonotonic ==
    [][\A id \in DOMAIN running' :
          IF id \in DOMAIN running THEN running'[id] => running[id]
          ELSE running'[id]]_vars

\* A resize has just succeeded on a registered session whose flag is false.
C2_Witness ==
    /\ response.command = "resize_terminal"
    /\ response.result[1] = "Ok"
    /\ response.terminal_id \in DOMAIN terminals
    /\ ~running[response.terminal_id]

\* C3: once kill_terminal(id) has returned, id is in no list_terminals result
\* and not in the registry, every get_terminal_status(id) returns Ok(false),
\* and every kill_terminal(id) returns Ok and leaves the registry, the running
\* flags and the input channels as they were.
C3_KilledStaysGone ==
    [][/\ \A id \in killed' : id \notin DOMAIN terminals'
       /\ response'.command = "list_terminals"
            => \A info \in Range(response'.result[2]) : info.id \notin killed
       /\ (response'.command = "get_terminal_status" /\ response'.terminal_id \in killed)
            => response'.result = Ok(FALSE)
       /\ (response'.command = "kill_terminal" /\ response'.terminal_id \in killed)
            => /\ response'.result = Ok(Unit)
               /\ UNCHANGED <<terminals, running, writer>>]_vars

\* get_terminal_status has just returned Ok(false) for a session that was
\* spawned and then killed.
C3_Witness ==
    /\ response.command = "get_terminal_status"
    /\ response.terminal_id \in killed \cap DOMAIN running
    /\ response.result = Ok(FALSE)

\* C4: after the reader of a session has left its loop, get_terminal_status
\* returns false for it and list_terminals keeps listing it with isRunning
\* false for as long as it is registered; only kill_terminal removes an entry.
C4_ExitedStaysListed ==
    [][/\ \A id \in DOMAIN terminals :
            id \notin DOMAIN terminals'
              => \E c \in Callers : pc[c] = "idle" /\ pc'[c] = "kill_io" /\ tid'[c] = id
       /\ \A id \in DOMAIN terminals' : Finished(id)' => ~running'[id]
       /\ (response'.command = "get_terminal_status" /\ Finished(response'.terminal_id))
            => response'.result = Ok(FALSE)
       /\ response'.command = "list_terminals"
            => \A id \in DOMAIN terminals :
                  Finished(id) => [id |-> id, project_id |-> terminals[id].project_id,
                                   is_running |-> FALSE] \in Range(response'.result[2])]_vars

\* list_terminals has just listed, as not running, a session whose reader is done.
C4_Witness ==
    /\ response.command = "list_terminals"
    /\ \E id \in DOMAIN terminals \cap DOMAIN reader :
          /\ reader[id] = "done"
          /\ \E info \in Range(response.result[2]) : info.id = id /\ ~info.is_running

\* C5: spawn_terminal generates an id that is not in the registry when the
\* call starts nor when it inserts; the insertion puts it there with
\* isRunning true; and when the call returns Ok(id), id is registered unless a
\* kill_terminal(id) has removed it meanwhile.
C5_SpawnRegistersFresh ==
    [][\A c \in Callers :
         /\ (pc[c] = "idle" /\ pc'[c] = "spawn_insert")
              => tid'[c] \notin DOMAIN terminals
         /\ (pc[c] = "spawn_insert" /\ pc'[c] = "spawn_threads")
              => /\ tid[c] \notin DOMAIN terminals
                 /\ tid[c] \in DOMAIN terminals'
                 /\ \E info \in {TerminalInfo(id)' : id \in DOMAIN terminals'} :
                       info = [id |-> tid[c], project_id |-> proj[c], is_running |-> TRUE]
         /\ (pc[c] = "spawn_threads" /\ pc'[c] = "idle")
              => /\ response' = Response("spawn_terminal", None, proj[c], Ok(tid[c]))
                 /\ \/ tid[c] \in DOMAIN terminals'
                    \/ tid[c] \in killed'
                    \/ \E d \in Callers : pc'[d] = "kill_io" /\ tid'[d] = tid[c]]_vars

\* spawn_terminal has just returned an id that is registered.
C5_Witness ==
    /\ response.command = "spawn_terminal"
    /\ response.result[1] = "Ok"
    /\ response.result[2] \in DOMAIN terminals

\* C6: a spawn_terminal that fails before the registry insertion (openpty,
\* spawn_command, try_clone_reader, take_writer, or the registry lock) returns
\* an error, leaves the registry, the reader threads and the events as they
\* were, and the id it may have generated never has an entry, a reader or an
\* event.
C6_FailedSpawnLeavesNoTrace ==
    [][/\ (response'.command = "spawn_terminal" /\ response'.result[1] = "Err")
            => UNCHANGED <<terminals, reader, reaper, events, pty>>
       /\ (DOMAIN child' # DOMAIN child /\ DOMAIN running' = DOMAIN running)
            => response'.command = "spawn_terminal" /\ response'.result[1] = "Err"
       /\ (\E c \in Callers : pc[c] = "spawn_insert" /\ pc'[c] = "idle")
            => response'.command = "spawn_terminal" /\ response'.result[1] = "Err"
       /\ \A id \in DOMAIN child' \ DOMAIN running' :
            /\ id \notin DOMAIN terminals'
            /\ id \notin DOMAIN reader'
            /\ events'[id] = <<>>]_vars

\* spawn_terminal has just failed on the poisoned registry lock, after its
\* child was launched, while another session is registered.
C6_Witness ==
    /\ response.command = "spawn_terminal"
    /\ response.result = Err(PoisonError)
    /\ DOMAIN terminals # {}
    /\ DOMAIN child \ DOMAIN running # {}

\* The mutexes a resize_terminal(id) must take, and those of a write_terminal(id).
CanResize(id) == regLock = None /\ masterLock[id] = None
CanWrite(id) == regLock = None /\ writerLock[id] = None

\* C7: while a write_terminal on session A is inside write_all/flush, a
\* resize_terminal on another registered session B can take every mutex it
\* needs (and likewise a write on A while a resize on B is inside resize):
\* neither waits on a lock the other holds.
C7_WriteAndResizeIndependent ==
    \A c \in Callers : \A b \in DOMAIN terminals :
        /\ (pc[c] = "write_io" /\ tid[c] # b) => CanResize(b)
        /\ (pc[c] = "resize_io" /\ tid[c] # b) => CanWrite(b)

\* C8: no command holds the registry mutex while it is inside write_all, flush
\* or resize.
C8_NoRegistryLockAcrossIo ==
    \A c \in Callers : pc[c] \in {"write_io", "resize_io", "kill_io"} => regLock # c

\* C9: a step by which the reader of session A ends (it leaves its loop, or
\* emits terminal-exit) changes nothing of any other session (flag, channels,
\* reader, events), nor the registry, nor any mutex.
C9_ReaderEndIsolated ==
    [][\A a \in DOMAIN reader :
          reader'[a] # reader[a]
            => /\ terminals' = terminals
               /\ \A b \in DOMAIN running \ {a} :
                    /\ running'[b] = running[b]
                    /\ writer'[b] = writer[b]
                    /\ master'[b] = master[b]
               /\ \A b \in DOMAIN reader \ {a} : reader'[b] = reader[b]
               /\ \A b \in Ids \ {a} : events'[b] = events[b]
               /\ UNCHANGED lockVars]_vars

\* The reader of one session is done while another session is registered,
\* running, and its reader still reads.
C9_Witness ==
    \E a \in DOMAIN reader, b \in DOMAIN reader \cap DOMAIN terminals :
        /\ a # b
        /\ reader[a] = "done" /\ ~running[a]
        /\ reader[b] = "read" /\ running[b]

\* C10: resize_terminal returns the not-found error exactly when the id is not
\* registered, and then changes nothing; that is the case for every id that was
\* killed or never inserted by a spawn.  For a registered session it performs
\* the resize: Ok with the new size set, or the resize error with no change.
C10_ResizeFoundOrNotFound ==
    [][/\ (response'.command = "resize_terminal" /\ response'.result = Err(NotFound))
            => /\ response'.terminal_id \notin DOMAIN terminals
               /\ UNCHANGED <<sessionVars, lockVars, pc, tid, proj, killed>>
       /\ (response'.command = "resize_terminal"
             /\ (response'.terminal_id \in killed \/ ~Inserted(response'.terminal_id)))
            => response'.result = Err(NotFound)
       /\ \A c \in Callers :
            (pc[c] = "resize_io" /\ pc'[c] = "idle")
              => /\ response'.command = "resize_terminal"
                 /\ response'.terminal_id = tid[c]
                 /\ \/ /\ response'.result = Ok(Unit)
                       /\ master' = [master EXCEPT ![tid[c]] = NewSize]
                    \/ /\ response'.result = Err("Failed to resize terminal")
                       /\ master' = master]_vars

\* resize_terminal has just returned not-found for a session that was spawned
\* and then killed.
C10_Witness ==
    /\ response.command = "resize_terminal"
    /\ response.result = Err(NotFound)
    /\ response.terminal_id \in killed \cap DOMAIN running

\* C11: a write_terminal that returns an error leaves the registry and every
\* running flag as they were.  On an id that is not registered the error is
\* the not-found one; an error out of write_all or flush is returned for a
\* registered session, which is still registered afterwards.
C11_FailedWriteKeepsSession ==
    [][/\ (response'.command = "write_terminal" /\ response'.result[1] = "Err")
            => UNCHANGED <<terminals, running>>
       /\ (response'.command = "write_terminal"
             /\ response'.terminal_id \notin DOMAIN terminals)
            => response'.result = Err(NotFound)
       /\ \A c \in Callers :
            (pc[c] = "write_io" /\ pc'[c] = "idle")
              => /\ tid[c] \in DOMAIN terminals'
                 /\ response'.command = "write_terminal"
                 /\ response'.terminal_id = tid[c]
                 /\ response'.result \in {Ok(Unit), Err("Failed to write to terminal"),
                                          Err("Failed to flush")}]_vars

\* A write_all has just failed on a session that is registered and running.
C11_Witness ==
    /\ response.command = "write_terminal"
    /\ response.result = Err("Failed to write to terminal")
    /\ response.terminal_id \in DOMAIN terminals
    /\ running[response.terminal_id]

\* C12: get_terminal_status(id) returns Ok with the current value of the
\* running flag when id is registered and Ok(false) when it is not, and it
\* changes neither the registry, nor a flag, nor anything else of a session.
C12_StatusReadsFlag ==
    [][response'.command = "get_terminal_status"
         => /\ response'.result =
                 Ok(IF response'.terminal_id \in DOMAIN terminals
                      THEN running[response'.terminal_id] ELSE FALSE)
            /\ UNCHANGED <<sessionVars, lockVars>>]_vars

\* get_terminal_status has just returned true for a registered session, while
\* another registered session has its flag false.
C12_Witness ==
    /\ response.command = "get_terminal_status"
    /\ response.terminal_id \in DOMAIN terminals
    /\ response.result = Ok(TRUE)
    /\ \E id \in DOMAIN terminals : ~running[id]

\* The registered sessions spawned for project pid.
ForProject(pid) == {id \in DOMAIN terminals : terminals[id].project_id = pid}

\* C13: get_terminal_for_project(pid) returns None when no registered session
\* has project id pid; otherwise it returns the TerminalInfo of a registered
\* session whose project_id is pid (of the only one, when there is one), with
\* its id a key of the registry.  It changes nothing.
C13_FindByProject ==
    [][response'.command = "get_terminal_for_project"
         => /\ IF ForProject(response'.project_id) = {}
                 THEN response'.result = Ok(Nothing)
                 ELSE \E id \in ForProject(response'.project_id) :
                        /\ response'.result = Ok(Some(TerminalInfo(id)))
                        /\ TerminalInfo(id).id = id
                        /\ TerminalInfo(id).project_id = response'.project_id
            /\ UNCHANGED <<sessionVars, lockVars>>]_vars

\* get_terminal_for_project has just returned the only session of its project
\* while a session of another project is registered.
C13_Witness ==
    /\ response.command = "get_terminal_for_project"
    /\ Cardinality(ForProject(response.project_id)) = 1
    /\ \E id \in ForProject(response.project_id) :
          response.result = Ok(Some(TerminalInfo(id)))
    /\ DOMAIN terminals # ForProject(response.project_id)

\* C14: list_terminals returns a snapshot of the registry as it is at the
\* step that reads it, with no write, resize or kill in progress: one
\* TerminalInfo per registered session, their ids being exactly the keys, each
\* with the project_id of its entry.  That project_id is
\* the one spawn_terminal was given: it is stored at the insertion and an
\* entry never changes afterwards.
C14_ListIsSnapshot ==
    [][/\ response'.command = "list_terminals"
            => /\ response'.result[1] = "Ok"
               /\ Len(response'.result[2]) = Cardinality(DOMAIN terminals)
               /\ {info.id : info \in Range(response'.result[2])} = DOMAIN terminals
               /\ \A info \in Range(response'.result[2]) :
                    info.project_id = terminals[info.id].project_id
               /\ \A c \in Callers : pc[c] \notin {"write_io", "resize_io", "kill_io"}
               /\ UNCHANGED <<sessionVars, lockVars>>
       /\ \A id \in DOMAIN terminals' :
            IF id \in DOMAIN terminals
              THEN terminals'[id] = terminals[id]
              ELSE \E c \in Callers :
                     /\ pc[c] = "spawn_insert" /\ tid[c] = id
                     /\ terminals'[id] = [id |-> id, project_id |-> proj[c]]]_vars

\* list_terminals has just returned two sessions, of different projects, one
\* running and one not.
C14_Witness ==
    /\ response.command = "list_terminals"
    /\ Len(response.result[2]) = 2
    /\ response.result[2][1].project_id # response.result[2][2].project_id
    /\ response.result[2][1].is_running # response.result[2][2].is_running

\* C15: the terminal-output events of one session are, in order, the chunks
\* its reader has read, each decoded on its own: one event per read that
\* returned data, none reordered, merged or dropped.
C15_OutputInReadOrder ==
    \A id \in Ids :
        Outputs(id) = [i \in 1..Len(pty[id]) |->
                          Emitted("terminal-output", id, from_utf8_lossy(pty[id][i]))]

\* A reader has read two different chunks, and both sessions have emitted output.
C15_Witness ==
    \E id \in Ids :
        /\ Len(pty[id]) = 2
        /\ pty[id][1] # pty[id][2]
        /\ Len(Outputs(id)) = 2
        /\ \E other \in Ids \ {id} : Len(Outputs(other)) > 0

\* C16: every registry key is the id stored in its entry; an id is inserted
\* by one spawn_terminal only, at a moment when it is not registered, has not
\* been removed by a kill_terminal, and is not the id of another spawn in
\* progress; two spawns in progress never hold the same id.
C16_IdsUnique ==
    [][/\ \A id \in DOMAIN terminals' : terminals'[id].id = id
       /\ \A id \in DOMAIN terminals' \ DOMAIN terminals :
            /\ id \notin killed
            /\ ~Killing(id)
            /\ id \notin DOMAIN reader
            /\ Cardinality({c \in Callers : pc[c] = "spawn_insert" /\ tid[c] = id}) = 1
            /\ \A c \in Callers : pc[c] = "spawn_threads" => tid[c] # id
       /\ \A c, d \in Callers :
            (c # d /\ pc'[c] \in {"spawn_insert", "spawn_threads"}
                   /\ pc'[d] \in {"spawn_insert", "spawn_threads"})
              => tid'[c] # tid'[d]]_vars

\* Two concurrent spawn_terminal calls have both inserted their session.
C16_Witness ==
    \E c, d \in Callers :
        /\ c # d
        /\ pc[c] = "spawn_threads" /\ pc[d] = "spawn_threads"
        /\ {tid[c], tid[d]} = DOMAIN terminals
        /\ Cardinality(DOMAIN terminals) = 2

\* What get_terminal_status(id) returns in the current state.
StatusOf(id) ==
    IF id \in DOMAIN terminals /\ <<"running", id>> \notin poisoned
      THEN running[id] ELSE FALSE

\* C17: once the child of a session whose reader thread runs has exited, so
\* that the reader's read returns end of stream, then with the reader thread
\* scheduled fairly a terminal-exit for the id is eventually emitted, and from
\* some point on get_terminal_status(id) is false for ever.
C17_ExitEventually ==
    \A id \in Ids :
        (id \in DOMAIN reader /\ child[id] # "running")
           ~> [](Len(Exits(id)) = 1 /\ ~StatusOf(id))

\* The child of a registered session has exited, its reader has emitted
\* terminal-exit, and get_terminal_status has just returned false for it.
C17_Witness ==
    /\ response.command = "get_terminal_status"
    /\ response.result = Ok(FALSE)
    /\ response.terminal_id \in DOMAIN terminals \cap DOMAIN reader
    /\ child[response.terminal_id] # "running"
    /\ reader[response.terminal_id] = "done"
    /\ Len(Exits(response.terminal_id)) = 1

\* C18: kill_terminal leaves the reader thread, what it has read and emitted,
\* the child and the master of the session alone.  For a session that is being
\* killed or has been killed, the reader can still read and emit the next
\* chunk, can still end its loop, and then emits terminal-exit.
C18_ReaderOutlivesKill ==
    [][/\ (\/ response'.command = "kill_terminal"
           \/ \E c \in Callers : pc[c] # pc'[c] /\ "kill_io" \in {pc[c], pc'[c]})
            => UNCHANGED <<reader, reaper, child, pty, events, master, masterLock>>
       /\ \A id \in DOMAIN reader \ DOMAIN terminals :
            /\ (reader[id] = "read" /\ Len(pty[id]) < MaxReads)
                 => ENABLED reader_output(id, read(id))
            /\ reader[id] = "read" => ENABLED reader_err(id)
            /\ (reader[id] = "read" /\ child[id] # "running") => ENABLED reader_eof(id)
            /\ reader[id] = "exit" => ENABLED reader_exit(id)]_vars

\* kill_terminal has just returned for a session that is no longer registered
\* and whose reader is still in its loop, with one chunk read so far.
C18_Witness ==
    /\ response.command = "kill_terminal"
    /\ response.terminal_id \in DOMAIN reader \ DOMAIN terminals
    /\ reader[response.terminal_id] = "read"
    /\ Len(pty[response.terminal_id]) = 1
    /\ child[response.terminal_id] = "running"

\* C19: kill_terminal(id) on a registered session removes the entry and sets
\* the flag of that session, and of no other, to false; afterwards, with the
\* entry gone and the flag false, it writes the single byte 3 to that session's
\* writer (or nothing, when the write fails) and to no other writer, and it
\* returns Ok whether or not the write succeeded.
C19_KillInterruptsOnlyItsSession ==
    [][/\ response'.command = "kill_terminal" => response'.result = Ok(Unit)
       /\ \A c \in Callers :
            /\ (pc[c] = "idle" /\ pc'[c] = "kill_io")
                 => /\ tid'[c] \in DOMAIN terminals
                    /\ terminals' = Remove(terminals, tid'[c])
                    /\ running' = [running EXCEPT ![tid'[c]] = FALSE]
                    /\ writer' = writer
            /\ (pc[c] = "kill_io" /\ pc'[c] = "idle")
                 => /\ tid[c] \notin DOMAIN terminals
                    /\ ~running[tid[c]]
                    /\ response' = Response("kill_terminal", tid[c], NoProject, Ok(Unit))
                    /\ \/ writer' = [writer EXCEPT ![tid[c]] = Append(@, CtrlC)]
                       \/ writer' = writer
                    /\ UNCHANGED <<terminals, running>>]_vars

\* kill_terminal has just returned after writing the interrupt to its session,
\* while another session is registered, running, and has received nothing.
C19_Witness ==
    /\ response.command = "kill_terminal"
    /\ response.terminal_id \in DOMAIN writer \ DOMAIN terminals
    /\ writer[response.terminal_id] = <<CtrlC>>
    /\ \E other \in DOMAIN terminals : running[other] /\ writer[other] = <<>>

\* C20: a mutex is poisoned only by a panic inside write_all, flush or resize,
\* which unwinds through the registry guard as well: whenever a writer or
\* master mutex is poisoned the registry mutex is too, and a running mutex
\* never is.  From then on every command that locks the registry (write,
\* resize, kill, status, find and list at their first statement, spawn at its
\* insertion) returns an error and changes nothing in the registry or in a
\* session that is registered.
C20_PoisonSurfaces ==
    [][/\ poisoned' # {} => "registry" \in poisoned'
       /\ \A id \in Ids : <<"running", id>> \notin poisoned'
       /\ (poisoned # {} /\ response'.command \notin {"none", "spawn_terminal"})
            => /\ response'.result[1] = "Err"
               /\ UNCHANGED <<sessionVars, lockVars>>
       /\ \A c \in Callers :
            (poisoned # {} /\ pc[c] = "spawn_insert" /\ pc'[c] # "spawn_insert")
              => /\ response'.command = "spawn_terminal"
                 /\ response'.result[1] = "Err"
                 /\ UNCHANGED <<terminals, reader, events>>]_vars

\* A write has panicked on a registered session, and get_terminal_status on
\* that session has just returned the lock error.
C20_Witness ==
    /\ response.command = "get_terminal_status"
    /\ response.result = Err(PoisonError)
    /\ response.terminal_id \in DOMAIN terminals
    /\ <<"writer", response.terminal_id>> \in poisoned

\* C21: the insertion of spawn_terminal does not look at project ids: it adds
\* the new entry and leaves every registered session (entry, flag, writer,
\* master) as it was, also when one of them has the same project_id; and
\* list_terminals then returns, for every project, all its registered sessions.
C21_ProjectNotUnique ==
    [][/\ \A c \in Callers :
            (pc[c] = "spawn_insert" /\ pc'[c] = "spawn_threads")
              => /\ DOMAIN terminals' = DOMAIN terminals \cup {tid[c]}
                 /\ terminals'[tid[c]].project_id = proj[c]
                 /\ \A id \in DOMAIN terminals :
                      /\ terminals'[id] = terminals[id]
                      /\ running'[id] = running[id]
                      /\ writer'[id] = writer[id]
                      /\ master'[id] = master[id]
       /\ response'.command = "list_terminals"
            => \A p \in Projects :
                  {info.id : info \in {i \in Range(response'.result[2]) : i.project_id = p}}
                     = ForProject(p)]_vars

\* list_terminals has just returned two sessions with different ids and the
\* same project_id.
C21_Witness ==
    /\ response.command = "list_terminals"
    /\ Len(response.result[2]) = 2
    /\ response.result[2][1].id # response.result[2][2].id
    /\ response.result[2][1].project_id = response.result[2][2].project_id

\* ---------------------------------------------------------------- task files
\* The lines of the task file, the fenced-code state before line i, and the
\* lines the parsers look at.
Lines == lines(content)
InCodeBlock(i) == Cardinality({k \in 1..(i - 1) : is_fence(Lines[k])}) % 2 = 1
Outside(i) == ~is_fence(Lines[i]) /\ ~InCodeBlock(i)
Counted == {i \in 1..Len(Lines) : Outside(i) /\ checkbox_re(Lines[i]) # 0}
Checked(i) == Lines[i][checkbox_re(Lines[i])] \in {"x", "X"}

\* C22: parse_tasks counts exactly the checkbox lines outside fenced code
\* blocks, every line that starts with three U+0060 after trimming toggling
\* the state; completed counts those of them marked x or X, 0 <= completed <=
\* total, and the empty input gives (0, 0).
C22_CountsOutsideCode ==
    response.command = "get_task_progress" =>
      LET progress == response.result[2] IN
        /\ progress.total = Cardinality(Counted)
        /\ progress.completed = Cardinality({i \in Counted : Checked(i)})
        /\ 0 <= progress.completed
        /\ progress.completed <= progress.total
        /\ content = <<>> => progress.total = 0 /\ progress.completed = 0

\* A checked box inside a code block was left out, the boxes outside counted.
C22_Witness ==
    /\ response.command = "get_task_progress"
    /\ response.result[2].total = 2
    /\ response.result[2].completed = 1
    /\ \E i \in 1..Len(Lines) :
         InCodeBlock(i) /\ ~is_fence(Lines[i]) /\ checkbox_re(Lines[i]) # 0 /\ Checked(i)

\* The recognised headings outside code, the column in force at line i, the
\* task lines, and the description lines that follow line i.
Heading(i) ==
    /\ Outside(i)
    /\ heading_re(Lines[i])
    /\ heading_to_column(full_heading(Lines[i])) # Nothing
ColumnAt(i) ==
    LET before == {h \in 1..(i - 1) : Heading(h)} IN
      IF before = {} THEN Nothing
      ELSE heading_to_column(full_heading(Lines[CHOOSE h \in before : \A m \in before : m <= h]))
TaskAt(i) == Outside(i) /\ task_re(Lines[i]) /\ ColumnAt(i) # Nothing
DescriptionOf(i) ==
    {j \in (i + 1)..Len(Lines) : \A m \in (i + 1)..j : is_description(Lines[m])}

InIo == {c \in Callers : pc[c] \in {"write_io", "resize_io", "kill_io"}}

\* C24: a reader thread, blocked in read or not, holds no mutex: every mutex
\* is free or held by a command inside its pty I/O, such a command can always
\* finish, and when no command is inside I/O every command a caller may
\* invoke or has in progress can take its next step, whatever the readers do.
C24_ReadersBlockNoCommand ==
    /\ regLock \in InIo \cup {None}
    /\ \A id \in DOMAIN writerLock : writerLock[id] \in InIo \cup {None}
    /\ \A id \in DOMAIN masterLock : masterLock[id] \in InIo \cup {None}
    /\ \A c \in InIo :
         ENABLED (\/ write_terminal_io(c, "ok")
                  \/ resize_terminal_io(c, "ok")
                  \/ kill_terminal_io(c, "ok"))
    /\ InIo = {} =>
         \A c \in Callers :
           /\ pc[c] = "spawn_insert" => ENABLED spawn_terminal_insert(c)
           /\ pc[c] = "spawn_threads" => ENABLED spawn_terminal_threads(c)
           /\ (pc[c] = "idle" /\ calls < MaxCalls) =>
                /\ ENABLED list_terminals(c)
                /\ \A p \in Projects :
                     /\ ENABLED get_terminal_for_project(c, p)
                     /\ Generated # Ids => ENABLED spawn_terminal_open(c, p)
                /\ \A id \in CallIds :
                     /\ ENABLED get_terminal_status(c, id)
                     /\ ENABLED resize_terminal_begin(c, id)
                     /\ ENABLED kill_terminal_begin(c, id)
                     /\ (id \in DOMAIN writer => Len(writer[id]) < MaxInput)
                          => ENABLED write_terminal_begin(c, id)

\* A write to a session went through while its reader was blocked in read
\* with the child alive and nothing left to read, and the caller can go on.
C24_Witness ==
    /\ response.command = "write_terminal"
    /\ response.result[1] = "Ok"
    /\ response.terminal_id \in DOMAIN reader
    /\ reader[response.terminal_id] = "read"
    /\ child[response.terminal_id] = "running"
    /\ Len(pty[response.terminal_id]) = MaxReads
    /\ calls < MaxCalls

\* Every second byte of a payload directly follows its first.
Contiguous(bytes) ==
    \A i \in 1..Len(bytes) :
        bytes[i] = Payload[2] => (i > 1 /\ bytes[i - 1] = Payload[1])

\* C27: the input of a session changes only by a step of the one thread that
\* holds its writer mutex, inside write_terminal or kill_terminal; so the
\* bytes of a write that succeeds are the last bytes of the input when it
\* returns, the interrupt byte of kill_terminal is appended whole, and no
\* payload is ever split by bytes of another call.
C27_WritesExclusive ==
    [][\A id \in DOMAIN writer :
         /\ writer'[id] # writer[id]
              => /\ writerLock[id] \in Callers
                 /\ tid[writerLock[id]] = id
                 /\ pc[writerLock[id]] \in {"write_io", "write_more", "kill_io"}
                 /\ pc'[writerLock[id]] # pc[writerLock[id]]
                 /\ \A d \in Callers \ {writerLock[id]} : pc'[d] = pc[d]
                 /\ pc[writerLock[id]] = "kill_io" => writer'[id] = Append(writer[id], CtrlC)
         /\ (/\ response'.command = "write_terminal"
             /\ response'.terminal_id = id
             /\ response'.result[1] = "Ok")
              => /\ Len(writer'[id]) >= Len(Payload)
                 /\ SubSeq(writer'[id], Len(writer'[id]) - Len(Payload) + 1, Len(writer'[id]))
                       = Payload
         /\ Contiguous(writer'[id])]_vars

\* Two writes to one session have both succeeded.
C27_Witness ==
    /\ response.command = "write_terminal"
    /\ response.result[1] = "Ok"
    /\ response.terminal_id \in DOMAIN writer
    /\ writer[response.terminal_id] = Payload \o Payload

\* C28: the reader thread and the child-wait thread of a session are started
\* after the session was inserted into the registry, so every terminal-output
\* and terminal-exit event carries an id that was inserted before; the event
\* may come before spawn_terminal has returned that id.
C28_ThreadsAfterInsert ==
    [][\A id \in Ids :
         (\/ id \in DOMAIN reader' \ DOMAIN reader
          \/ id \in DOMAIN reaper' \ DOMAIN reaper
          \/ events'[id] # events[id])
           => id \in inserted]_vars

\* An event of a session is out while its spawn_terminal has yet to return.
C28_Witness ==
    \E c \in Callers :
        /\ pc[c] = "spawn_return"
        /\ tid[c] \in inserted
        /\ events[tid[c]] # <<>>

\* C25: the reader clears the flag before it emits terminal-exit: whenever a
\* terminal-exit for id is out, the flag of id is false, what
\* get_terminal_status(id) would return is false, and a get_terminal_status(id)
\* that has just returned gave false.
C25_FlagClearedBeforeExit ==
    \A id \in Ids :
        Exits(id) # <<>> =>
            /\ id \in DOMAIN running
            /\ ~running[id]
            /\ ~StatusOf(id)
            /\ (response.command = "get_terminal_status" /\ response.terminal_id = id)
                  => response.result = Ok(FALSE)

\* get_terminal_status has just returned false for a session that is still
\* registered and whose terminal-exit is out.
C25_Witness ==
    /\ response.command = "get_terminal_status"
    /\ response.result = Ok(FALSE)
    /\ response.terminal_id \in DOMAIN terminals
    /\ Exits(response.terminal_id) # <<>>
    /\ response.terminal_id \notin killed

\* The session mutexes thread c holds.
HeldBy(c) ==
    {<<"writer", id>> : id \in {i \in DOMAIN writerLock : writerLock[i] = c}}
       \cup {<<"master", id>> : id \in {i \in DOMAIN masterLock : masterLock[i] = c}}

\* C26: no cycle of threads waiting on each other's mutexes.  A session mutex
\* is only held together with the registry mutex, by one command that holds
\* no second session mutex; that command waits for nothing: it can finish its
\* I/O; when the registry is free every session mutex is free, so a command
\* that waits for the registry can go on; and the reader and child-wait
\* threads take part in none of this: a step that is not a command's leaves
\* the mutexes alone.
C26_NoLockCycle ==
    [][/\ \A id \in DOMAIN writerLock : writerLock[id] # None => writerLock[id] = regLock
       /\ \A id \in DOMAIN masterLock : masterLock[id] # None => masterLock[id] = regLock
       /\ \A c \in Callers :
            /\ Cardinality(HeldBy(c)) <= 1
            /\ regLock = c =>
                 /\ Cardinality(HeldBy(c)) = 1
                 /\ ENABLED (\/ write_terminal_io(c, "ok")
                             \/ resize_terminal_io(c, "ok")
                             \/ kill_terminal_io(c, "ok"))
            /\ (regLock = None /\ pc[c] = "spawn_insert") => ENABLED spawn_terminal_insert(c)
            /\ (regLock = None /\ pc[c] = "idle" /\ calls < MaxCalls) =>
                 \A id \in DOMAIN terminals :
                    /\ ENABLED kill_terminal_begin(c, id)
                    /\ ENABLED resize_terminal_begin(c, id)
                    /\ Len(writer[id]) < MaxInput => ENABLED write_terminal_begin(c, id)
       /\ pc' = pc => UNCHANGED <<regLock, writerLock, masterLock>>]_vars

\* A command waits for the registry, which another command holds together
\* with the writer mutex of the session, while the reader of that session has
\* left its loop.
C26_Witness ==
    \E c, d \in Callers :
        /\ pc[c] = "write_io" /\ regLock = c /\ writerLock[tid[c]] = c
        /\ pc[d] = "spawn_insert"
        /\ tid[c] \in DOMAIN reader /\ reader[tid[c]] = "exit"

\* C29: write_terminal and resize_terminal return "Terminal not found" exactly
\* when the id is not in the registry at the lookup, whatever the flag says:
\* for a registered session, running or not, they go on to the I/O.
C29_NotFoundIffAbsent ==
    [][\A c \in Callers :
         (pc[c] = "idle" /\ calls' = calls + 1) =>
            /\ (/\ response'.command \in {"write_terminal", "resize_terminal"}
                /\ response'.terminal_id \notin DOMAIN terminals)
                 => response'.result = Err(NotFound)
            /\ (/\ response'.command \in {"write_terminal", "resize_terminal"}
                /\ response'.result[1] = "Err")
                 => /\ response'.result = Err(NotFound)
                    /\ response'.terminal_id \notin DOMAIN terminals
            /\ pc'[c] \in {"write_io", "resize_io"}
                 => /\ tid'[c] \in DOMAIN terminals
                    /\ response' = NoResponse]_vars

\* A write is inside its I/O on a session whose reader has ended (flag false)
\* and which no kill_terminal has touched.
C29_Witness ==
    \E c \in Callers :
        /\ pc[c] = "write_io"
        /\ tid[c] \in DOMAIN terminals
        /\ ~running[tid[c]]
        /\ Exits(tid[c]) # <<>>
        /\ tid[c] \notin killed

\* C30: the step by which the child-wait thread of a session ends (the child
\* has exited and is waited on) changes neither the registry, nor any flag,
\* nor the events, nor a reader thread; a flag changes only when its reader
\* leaves the loop or a kill_terminal removes the session, so
\* get_terminal_status may return true for a session whose child is reaped.
C30_ReaperTouchesNothing ==
    [][/\ (\E id \in DOMAIN reaper' :
              reaper'[id] = "done" /\ (id \notin DOMAIN reaper \/ reaper[id] # "done"))
            => UNCHANGED <<terminals, running, events, reader, writer, master,
                           regLock, writerLock, masterLock>>
       /\ \A id \in DOMAIN running \cap DOMAIN running' :
            running'[id] # running[id]
              => \/ id \in DOMAIN reader /\ reader[id] = "read" /\ reader'[id] = "exit"
                 \/ id \in DOMAIN terminals /\ id \notin DOMAIN terminals']_vars

\* get_terminal_status has just returned true for a session whose child has
\* exited and been waited on.
C30_Witness ==
    /\ response.command = "get_terminal_status"
    /\ response.result = Ok(TRUE)
    /\ response.terminal_id \in DOMAIN reaper
    /\ reaper[response.terminal_id] = "done"
    /\ child[response.terminal_id] = "reaped"

\* C31: every child that spawn_terminal has launched is waited on once it
\* exits, whatever the path through spawn_terminal: a child that has exited
\* without being waited on has a child-wait thread, or its spawn_terminal is
\* still on the way to starting one.
C31_EveryChildWaitedOn ==
    \A id \in DOMAIN child :
        child[id] = "exited" =>
            \/ id \in DOMAIN reaper
            \/ \E c \in Callers : pc[c] \in {"spawn_insert", "spawn_threads"} /\ tid[c] = id

====
